---- MODULE Spec2Model ----
(***************************************************************************)
(* data2sql: schema inference and SQL statement generation                 *)
(* (src/data2sql/core.py).                                                 *)
(*                                                                         *)
(* A Python str is a sequence of one-character strings, so that quoting,   *)
(* escaping, joining and the characters of a statement are computed.       *)
(* A Python dict is a sequence of entries with distinct keys, in insertion *)
(* order: [k, v] entries for a record, [k, t] entries for a schema.        *)
(* A Python value is [kind, b, n, s]:                                      *)
(*   kind "null"  None                                                     *)
(*   kind "bool"  the boolean b                                            *)
(*   kind "int"   the integer n                                            *)
(*   kind "float" the float n/10 (one decimal digit)                       *)
(*   kind "str"   the string s                                             *)
(*   kind "list"  a list of n ones (a value that is none of the above)     *)
(***************************************************************************)
EXTENDS Integers, Sequences, FiniteSets, TLC

VARIABLES
    call,          \* the call of a core function being made: [op, table_name, schema, data, value]
    ret,           \* what that call produced: [state, raised, value]
    pc,            \* process_data: the statement it is at
    output,        \* process_data: the output argument
    source,        \* the input file as load_data will find it
    table_name,    \* process_data: the table_name argument
    data,          \* process_data: local data
    schema,        \* process_data: local schema
    create_stmt,   \* process_data: local create_stmt
    insert_stmts,  \* process_data: local insert_stmts
    raised,        \* process_data: the exception that ended it, "" when none
    file,          \* file sink: [opened, text]
    db,            \* database sink: [executed, committed, next]
    cli            \* convert: its options, its position, its locals data and new_schema

vars == <<call, ret, pc, output, source, table_name, data, schema,
          create_stmt, insert_stmts, raised, file, db, cli>>

callVars == <<call, ret>>
processVars == <<pc, output, source, table_name, data, schema,
                 create_stmt, insert_stmts, raised, file, db>>

----------------------------------------------------------------------------
(* Bounds *)

\* records of a batch
MaxRecords == 2
\* field values of a batch, all its records together
MaxCells == 3

----------------------------------------------------------------------------
(* Values *)

NoneValue == [kind |-> "null", b |-> FALSE, n |-> 0, s |-> <<>>]
BoolValue(x) == [kind |-> "bool", b |-> x, n |-> 0, s |-> <<>>]
IntValue(x) == [kind |-> "int", b |-> FALSE, n |-> x, s |-> <<>>]
FloatValue(tenths) == [kind |-> "float", b |-> FALSE, n |-> tenths, s |-> <<>>]
StrValue(x) == [kind |-> "str", b |-> FALSE, n |-> 0, s |-> x]
ListValue(len) == [kind |-> "list", b |-> FALSE, n |-> len, s |-> <<>>]

DigitChars == <<"0", "1", "2", "3", "4", "5", "6", "7", "8", "9">>

IsDigit(c) == \E i \in 1..10 : DigitChars[i] = c

DigitValue(c) == (CHOOSE i \in 1..10 : DigitChars[i] = c) - 1

RECURSIVE NatStr(_)
NatStr(n) ==
    IF n < 10 THEN <<DigitChars[n + 1]>>
    ELSE NatStr(n \div 10) \o <<DigitChars[(n % 10) + 1]>>

IntStr(n) == IF n < 0 THEN <<"-">> \o NatStr(0 - n) ELSE NatStr(n)

FloatStr(tenths) ==
    LET a == IF tenths < 0 THEN 0 - tenths ELSE tenths
    IN  (IF tenths < 0 THEN <<"-">> ELSE <<>>)
            \o NatStr(a \div 10) \o <<".">> \o <<DigitChars[(a % 10) + 1]>>

RECURSIVE Join(_, _)
Join(parts, sep) ==
    IF parts = <<>> THEN <<>>
    ELSE IF Len(parts) = 1 THEN parts[1]
    ELSE parts[1] \o sep \o Join(Tail(parts), sep)

ListStr(len) == <<"[">> \o Join([i \in 1..len |-> <<"1">>], <<",", " ">>) \o <<"]">>

\* str(val)
Str(val) ==
    CASE val.kind = "null" -> <<"N", "o", "n", "e">>
      [] val.kind = "bool" -> IF val.b THEN <<"T", "r", "u", "e">>
                              ELSE <<"F", "a", "l", "s", "e">>
      [] val.kind = "int" -> IntStr(val.n)
      [] val.kind = "float" -> FloatStr(val.n)
      [] val.kind = "str" -> val.s
      [] val.kind = "list" -> ListStr(val.n)

\* the truth value of val in `if val`
Truthy(val) ==
    CASE val.kind = "null" -> FALSE
      [] val.kind = "bool" -> val.b
      [] val.kind = "int" -> val.n # 0
      [] val.kind = "float" -> val.n # 0
      [] val.kind = "str" -> val.s # <<>>
      [] val.kind = "list" -> val.n > 0

\* isinstance(value, cls): bool is a subclass of int
IsInstance(val, cls) ==
    CASE cls = "bool" -> val.kind = "bool"
      [] cls = "int" -> val.kind \in {"int", "bool"}
      [] cls = "float" -> val.kind = "float"
      [] cls = "str" -> val.kind = "str"

\* str.replace(old, new) for a one-character old
RECURSIVE Replace(_, _, _)
Replace(s, old, new) ==
    IF s = <<>> THEN <<>>
    ELSE (IF Head(s) = old THEN new ELSE <<Head(s)>>) \o Replace(Tail(s), old, new)

----------------------------------------------------------------------------
(* Type inference *)

\* dateutil's parse(value) succeeds. The parser is a library; of its formats
\* this keeps the ISO calendar date YYYY-MM-DD with a month 1..12 and a day
\* 1..31, and it rejects the other strings of the model, as dateutil does.
parse_date(s) ==
    /\ Len(s) = 10
    /\ s[5] = "-"
    /\ s[8] = "-"
    /\ \A i \in {1, 2, 3, 4, 6, 7, 9, 10} : IsDigit(s[i])
    /\ 10 * DigitValue(s[6]) + DigitValue(s[7]) \in 1..12
    /\ 10 * DigitValue(s[9]) + DigitValue(s[10]) \in 1..31

\* the integer test placed before the boolean test
infer_type_int_first(value) ==
    IF value.kind = "null" THEN "TEXT"
    ELSE IF IsInstance(value, "int") THEN "INTEGER"
    ELSE IF IsInstance(value, "bool") THEN "BOOLEAN"
    ELSE IF IsInstance(value, "float") THEN "REAL"
    ELSE IF IsInstance(value, "str") THEN
        (IF parse_date(value.s) THEN "DATE" ELSE "TEXT")
    ELSE "TEXT"

infer_type(value) ==
    IF value.kind = "null" THEN "TEXT"
    ELSE IF IsInstance(value, "bool") THEN "BOOLEAN"
    ELSE IF IsInstance(value, "int") THEN "INTEGER"
    ELSE IF IsInstance(value, "float") THEN "REAL"
    ELSE IF IsInstance(value, "str") THEN
        (IF parse_date(value.s) THEN "DATE" ELSE "TEXT")
    ELSE "TEXT"

----------------------------------------------------------------------------
(* dict *)

\* key in d
HasKey(d, key) == \E i \in 1..Len(d) : d[i].k = key

\* the entry of d[key], for a key of d
Entry(d, key) == d[CHOOSE i \in 1..Len(d) : d[i].k = key]

\* d.get(key)
DictGet(d, key) == IF HasKey(d, key) THEN Entry(d, key).v ELSE NoneValue

----------------------------------------------------------------------------
(* Schema inference *)

\* the value of the first row alone
column_values_first_row_only(batch, key) ==
    IF DictGet(batch[1], key).kind # "null" THEN <<Entry(batch[1], key).v>> ELSE <<>>

\* values = [row[key] for row in data if row.get(key) is not None]
column_values(batch, key) ==
    LET rows == SelectSeq(batch, LAMBDA row : DictGet(row, key).kind # "null")
    IN  [i \in 1..Len(rows) |-> Entry(rows[i], key).v]

\* the keys of every row instead of those of data[0]
RECURSIVE all_keys(_, _)
all_keys(batch, seen) ==
    IF batch = <<>> THEN seen
    ELSE LET row == Head(batch)
             fresh == SelectSeq([i \in 1..Len(row) |-> row[i].k],
                                LAMBDA key : \A j \in 1..Len(seen) : seen[j] # key)
         IN  all_keys(Tail(batch), seen \o fresh)

schema_keys_all_rows(batch) == all_keys(batch, <<>>)

\* data[0].keys()
schema_keys(batch) == [i \in 1..Len(batch[1]) |-> batch[1][i].k]

infer_schema(batch) ==
    IF batch = <<>> THEN <<>>
    ELSE LET keys == schema_keys(batch)
         IN  [i \in 1..Len(keys) |->
                LET values == column_values(batch, keys[i])
                IN  [k |-> keys[i],
                     t |-> IF values = <<>> THEN "TEXT" ELSE infer_type(values[1])]]

----------------------------------------------------------------------------
(* Statement generation *)

TagChars(t) ==
    CASE t = "TEXT" -> <<"T", "E", "X", "T">>
      [] t = "BOOLEAN" -> <<"B", "O", "O", "L", "E", "A", "N">>
      [] t = "INTEGER" -> <<"I", "N", "T", "E", "G", "E", "R">>
      [] t = "REAL" -> <<"R", "E", "A", "L">>
      [] t = "DATE" -> <<"D", "A", "T", "E">>

\* every entry but the last one
generate_create_table_drop_last(table, sch) ==
    LET fields == [i \in 1..(IF sch = <<>> THEN 0 ELSE Len(sch) - 1) |->
                     sch[i].k \o <<" ">> \o TagChars(sch[i].t)]
        field_list == Join(fields, <<",", "\n", " ", " ", " ", " ">>)
    IN  <<"C", "R", "E", "A", "T", "E", " ", "T", "A", "B", "L", "E", " ",
          "I", "F", " ", "N", "O", "T", " ", "E", "X", "I", "S", "T", "S", " ">>
            \o table \o <<" ", "(", "\n", " ", " ", " ", " ">>
            \o field_list \o <<"\n", ")", ";">>

generate_create_table(table, sch) ==
    LET fields == [i \in 1..Len(sch) |->
                     sch[i].k \o <<" ">> \o TagChars(sch[i].t)]
        field_list == Join(fields, <<",", "\n", " ", " ", " ", " ">>)
    IN  <<"C", "R", "E", "A", "T", "E", " ", "T", "A", "B", "L", "E", " ",
          "I", "F", " ", "N", "O", "T", " ", "E", "X", "I", "S", "T", "S", " ">>
            \o table \o <<" ", "(", "\n", " ", " ", " ", " ">>
            \o field_list \o <<"\n", ")", ";">>

\* What an expression produces: a value, or the exception it raises.
Returns(x) == [raised |-> "", value |-> x]
Raises(e) == [raised |-> e, value |-> <<>>]

\* schema.get(col) instead of schema[col]: a field the schema lacks falls
\* through to the last branch
format_value_no_lookup_error(sch, col, val) ==
    LET t == IF HasKey(sch, col) THEN Entry(sch, col).t ELSE "" IN
    IF t = "TEXT" \/ t = "DATE"
      THEN Returns(<<"'">> \o Replace(Str(val), "'", <<"'", "'">>) \o <<"'">>)
    ELSE IF t = "BOOLEAN" THEN Returns(IF Truthy(val) THEN <<"1">> ELSE <<"0">>)
    ELSE Returns(Str(val))

\* the branch chosen by the value's own type instead of the schema's
format_value_by_runtime_type(sch, col, val) ==
    IF ~HasKey(sch, col) THEN Raises("KeyError")
    ELSE LET t == infer_type(val) IN
         IF t = "TEXT" \/ t = "DATE"
           THEN Returns(<<"'">> \o Replace(Str(val), "'", <<"'", "'">>) \o <<"'">>)
         ELSE IF t = "BOOLEAN" THEN Returns(IF Truthy(val) THEN <<"1">> ELSE <<"0">>)
         ELSE Returns(Str(val))

\* the value of a column, as the branches on schema[col] format it
format_value(sch, col, val) ==
    IF ~HasKey(sch, col) THEN Raises("KeyError")
    ELSE LET t == Entry(sch, col).t IN
         IF t = "TEXT" \/ t = "DATE"
           THEN Returns(<<"'">> \o Replace(Str(val), "'", <<"'", "'">>) \o <<"'">>)
         ELSE IF t = "BOOLEAN" THEN Returns(IF Truthy(val) THEN <<"1">> ELSE <<"0">>)
         ELSE Returns(Str(val))

\* a null value listed too, as the literal NULL
RECURSIVE row_items_null_listed(_, _, _, _, _)
row_items_null_listed(sch, row, i, columns, values) ==
    IF i > Len(row) THEN Returns([columns |-> columns, values |-> values])
    ELSE IF row[i].v.kind # "null" THEN
        LET f == format_value(sch, row[i].k, row[i].v) IN
        IF f.raised # "" THEN Raises(f.raised)
        ELSE row_items_null_listed(sch, row, i + 1,
                                   Append(columns, row[i].k), Append(values, f.value))
    ELSE row_items_null_listed(sch, row, i + 1,
                               Append(columns, row[i].k),
                               Append(values, <<"N", "U", "L", "L">>))

\* for col, val in row.items(): from item i on, with the lists built so far
RECURSIVE row_items(_, _, _, _, _)
row_items(sch, row, i, columns, values) ==
    IF i > Len(row) THEN Returns([columns |-> columns, values |-> values])
    ELSE IF row[i].v.kind # "null" THEN
        LET f == format_value(sch, row[i].k, row[i].v) IN
        IF f.raised # "" THEN Raises(f.raised)
        ELSE row_items(sch, row, i + 1,
                       Append(columns, row[i].k), Append(values, f.value))
    ELSE row_items(sch, row, i + 1, columns, values)

\* the lists joined as generate_create_table joins its fields, one per line
insert_stmt_one_per_line(table, columns, values) ==
    <<"I", "N", "S", "E", "R", "T", " ", "I", "N", "T", "O", " ">>
        \o table \o <<" ", "(">> \o Join(columns, <<",", "\n", " ", " ", " ", " ">>)
        \o <<")", " ", "V", "A", "L", "U", "E", "S", " ", "(">>
        \o Join(values, <<",", "\n", " ", " ", " ", " ">>) \o <<")", ";">>

\* the INSERT statement of the two lists
insert_stmt(table, columns, values) ==
    <<"I", "N", "S", "E", "R", "T", " ", "I", "N", "T", "O", " ">>
        \o table \o <<" ", "(">> \o Join(columns, <<",", " ">>)
        \o <<")", " ", "V", "A", "L", "U", "E", "S", " ", "(">>
        \o Join(values, <<",", " ">>) \o <<")", ";">>

\* columns and values created once, before the loop over the rows, so that
\* a row's statement also lists the columns and values of the rows before it
RECURSIVE data_rows_shared_lists(_, _, _, _, _, _)
data_rows_shared_lists(table, rows, sch, statements, columns, values) ==
    IF rows = <<>> THEN Returns(statements)
    ELSE LET r == row_items(sch, Head(rows), 1, columns, values) IN
         IF r.raised # "" THEN Raises(r.raised)
         ELSE data_rows_shared_lists(
                  table, Tail(rows), sch,
                  Append(statements, insert_stmt(table, r.value.columns, r.value.values)),
                  r.value.columns, r.value.values)

generate_insert_statements_shared_lists(table, batch, sch) ==
    IF batch = <<>> THEN Returns(<<>>)
    ELSE data_rows_shared_lists(table, batch, sch, <<>>, <<>>, <<>>)

\* for row in data: from the rows left, with the statements built so far.
\* An exception leaves the function with the statements built so far lost.
RECURSIVE data_rows(_, _, _, _)
data_rows(table, rows, sch, statements) ==
    IF rows = <<>> THEN Returns(statements)
    ELSE LET r == row_items(sch, Head(rows), 1, <<>>, <<>>) IN
         IF r.raised # "" THEN Raises(r.raised)
         ELSE data_rows(table, Tail(rows), sch,
                        Append(statements,
                               insert_stmt(table, r.value.columns, r.value.values)))

generate_insert_statements(table, batch, sch) ==
    IF batch = <<>> THEN Returns(<<>>)
    ELSE data_rows(table, batch, sch, <<>>)

----------------------------------------------------------------------------
(* Inputs *)

FieldNames == {<<"a">>, <<"b">>}

TableNames == {<<"t">>, <<"p", "l">>}

Tags == {"TEXT", "BOOLEAN", "INTEGER", "REAL", "DATE"}

\* the tags of the schemas that go with the batches of several records
NarrowTags == {"TEXT", "INTEGER"}

Values ==
    {NoneValue, BoolValue(TRUE), BoolValue(FALSE),
     IntValue(0), IntValue(-12), FloatValue(25), FloatValue(0),
     StrValue(<<>>), StrValue(<<"O", "'", "B">>), StrValue(<<"'">>),
     StrValue(<<"2", "0", "2", "4", "-", "0", "3", "-", "1", "5">>),
     StrValue(<<"a", "\n", "b">>),
     ListValue(0), ListValue(2)}

\* the values of the batches of several records
NarrowValues == {NoneValue, IntValue(7), StrValue(<<"O", "'", "B">>)}

\* the key orders of a dict over FieldNames
KeyOrders ==
    {ks \in UNION {[1..n -> FieldNames] : n \in 0..Cardinality(FieldNames)} :
        \A i, j \in 1..Len(ks) : i # j => ks[i] # ks[j]}

RecordsOver(V) ==
    UNION {{[i \in 1..Len(ks) |-> [k |-> ks[i], v |-> f[i]]] :
                f \in [1..Len(ks) -> V]} : ks \in KeyOrders}

SchemasOver(T) ==
    UNION {{[i \in 1..Len(ks) |-> [k |-> ks[i], t |-> f[i]]] :
                f \in [1..Len(ks) -> T]} : ks \in KeyOrders}

RECURSIVE Cells(_)
Cells(batch) == IF batch = <<>> THEN 0 ELSE Len(Head(batch)) + Cells(Tail(batch))

\* one record of one field, over every value
RichBatches == {<<r>> : r \in {x \in RecordsOver(Values) : Len(x) = 1}}

\* up to MaxRecords records and MaxCells field values, over NarrowValues
NarrowBatches ==
    {b \in UNION {[1..n -> RecordsOver(NarrowValues)] : n \in 0..MaxRecords} :
        Cells(b) <= MaxCells}

Batches == RichBatches \cup NarrowBatches

Schemas == SchemasOver(Tags)

Call(op, table, sch, batch, value) ==
    [op |-> op, table_name |-> table, schema |-> sch, data |-> batch, value |-> value]

NoCall == Call("", <<>>, <<>>, <<>>, NoneValue)

Calls ==
    {Call("infer_type", <<>>, <<>>, <<>>, v) : v \in Values}
    \cup {Call("infer_schema", <<>>, <<>>, b, NoneValue) : b \in Batches}
    \cup {Call("generate_create_table", t, s, <<>>, NoneValue) :
            t \in TableNames, s \in Schemas}
    \cup {Call("generate_insert_statements", t, s, b, NoneValue) :
            t \in TableNames, s \in Schemas, b \in RichBatches}
    \cup {Call("generate_insert_statements", t, s, b, NoneValue) :
            t \in TableNames, s \in SchemasOver(NarrowTags), b \in NarrowBatches}

Pending == [state |-> "pending", raised |-> "", value |-> <<>>]

\* convert is not running
NoCli ==
    [stage |-> "none", table |-> <<>>, output |-> <<>>, interactive |-> FALSE,
     preview |-> FALSE, data |-> <<>>, new_schema |-> <<>>]

\* what the caller gets of an expression's outcome
Outcome(r) ==
    IF r.raised = "" THEN [state |-> "returned", raised |-> "", value |-> r.value]
    ELSE [state |-> "raised", raised |-> r.raised, value |-> <<>>]

----------------------------------------------------------------------------
(* The core functions, called on their own *)

ProcessIdle ==
    /\ pc = "idle"
    /\ output = <<>>
    /\ source = [kind |-> "missing", rows |-> <<>>]
    /\ table_name = <<>>
    /\ data = <<>>
    /\ schema = <<>>
    /\ create_stmt = <<>>
    /\ insert_stmts = <<>>
    /\ raised = ""
    /\ file = [opened |-> FALSE, text |-> <<>>]
    /\ db = [connected |-> FALSE, executed |-> <<>>, committed |-> <<>>, next |-> 0]

Init ==
    /\ call \in Calls
    /\ ret = Pending
    /\ cli = NoCli
    /\ ProcessIdle

InferType ==
    /\ call.op = "infer_type"
    /\ ret.state = "pending"
    /\ ret' = Outcome(Returns(infer_type(call.value)))
    /\ UNCHANGED <<call, cli, processVars>>

InferSchema ==
    /\ call.op = "infer_schema"
    /\ ret.state = "pending"
    /\ ret' = Outcome(Returns(infer_schema(call.data)))
    /\ UNCHANGED <<call, cli, processVars>>

GenerateCreateTable ==
    /\ call.op = "generate_create_table"
    /\ ret.state = "pending"
    /\ ret' = Outcome(Returns(generate_create_table(call.table_name, call.schema)))
    /\ UNCHANGED <<call, cli, processVars>>

GenerateInsertStatements ==
    /\ call.op = "generate_insert_statements"
    /\ ret.state = "pending"
    /\ ret' = Outcome(generate_insert_statements(call.table_name, call.data, call.schema))
    /\ UNCHANGED <<call, cli, processVars>>

Next ==
    \/ InferType
    \/ InferSchema
    \/ GenerateCreateTable
    \/ GenerateInsertStatements

Spec == Init /\ [][Next]_vars

----------------------------------------------------------------------------
(* Properties of the core functions *)

Called(op) == call.op = op /\ ret.state # "pending"

Returned(op) == call.op = op /\ ret.state = "returned"

KeysOf(d) == [i \in 1..Len(d) |-> d[i].k]

NonNull(row) == SelectSeq(row, LAMBDA e : e.v.kind # "null")

HasChar(s, c) == \E i \in 1..Len(s) : s[i] = c

EndsWith(s, c) == s # <<>> /\ s[Len(s)] = c

\* C1, as stated: a record with a field that is not a key of the schema,
\* whatever the field's value, makes generate_insert_statements raise the
\* lookup error and return nothing.
C1_UnknownFieldAborts ==
    (/\ Called("generate_insert_statements")
     /\ \E i \in 1..Len(call.data) : \E j \in 1..Len(call.data[i]) :
            ~HasKey(call.schema, call.data[i][j].k))
    => (ret.state = "raised" /\ ret.raised = "KeyError")

\* C1, amended: a record with a field of non-null value that is not a key of
\* the schema, at any position in the batch, makes
\* generate_insert_statements raise the lookup error and return nothing, the
\* statements of the records before it included.
C1_UnknownNonNullFieldAborts ==
    (/\ Called("generate_insert_statements")
     /\ \E i \in 1..Len(call.data) : \E j \in 1..Len(call.data[i]) :
            /\ ~HasKey(call.schema, call.data[i][j].k)
            /\ call.data[i][j].v.kind # "null")
    => (ret.state = "raised" /\ ret.raised = "KeyError")

\* the offending record is the second one, after a record the schema covers
C1_Witness ==
    /\ Called("generate_insert_statements")
    /\ Len(call.data) = 2
    /\ call.data[1] # <<>>
    /\ \A j \in 1..Len(call.data[1]) :
            /\ HasKey(call.schema, call.data[1][j].k)
            /\ call.data[1][j].v.kind # "null"
    /\ \E j \in 1..Len(call.data[2]) :
            /\ ~HasKey(call.schema, call.data[2][j].k)
            /\ call.data[2][j].v.kind # "null"
    /\ ret.state = "raised"

InsertText(table, columns, literals) ==
    <<"I", "N", "S", "E", "R", "T", " ", "I", "N", "T", "O", " ">> \o table
        \o <<" ", "(">> \o Join(columns, <<",", " ">>) \o <<")", " ">>
        \o <<"V", "A", "L", "U", "E", "S", " ", "(">>
        \o Join(literals, <<",", " ">>) \o <<")", ";">>

AllInSchema(row, sch) == \A j \in 1..Len(row) : HasKey(sch, row[j].k)

\* C2: for a record whose fields are all in the schema, the INSERT lists
\* exactly the record's non-null fields, in the record's key order, and as
\* many values, the i-th being the formatting of the i-th listed field; a
\* null field is in neither list.
C2_NonNullFieldsInRecordOrder ==
    Returned("generate_insert_statements") =>
        \A i \in 1..Len(call.data) :
            AllInSchema(call.data[i], call.schema) =>
                LET listed == NonNull(call.data[i])
                    literals == [j \in 1..Len(listed) |->
                        format_value(call.schema, listed[j].k, listed[j].v).value]
                IN  /\ i <= Len(ret.value)
                    /\ ret.value[i] = InsertText(call.table_name, KeysOf(listed), literals)

\* a record of two fields in another order than the schema's, the first null
C2_Witness ==
    /\ Returned("generate_insert_statements")
    /\ \E i \in 1..Len(call.data) :
        /\ Len(call.data[i]) = 2
        /\ Len(call.schema) = 2
        /\ call.data[i][1].k = call.schema[2].k
        /\ call.data[i][2].k = call.schema[1].k
        /\ call.data[i][1].v.kind = "null"
        /\ call.data[i][2].v.kind # "null"

\* a text with every pair of single quotes read as one; not ok when a single
\* quote stands alone
RECURSIVE Undouble(_)
Undouble(s) ==
    IF s = <<>> THEN [ok |-> TRUE, s |-> <<>>]
    ELSE IF Head(s) = "'" THEN
        IF Len(s) >= 2 /\ s[2] = "'"
        THEN LET u == Undouble(SubSeq(s, 3, Len(s)))
             IN  [ok |-> u.ok, s |-> <<"'">> \o u.s]
        ELSE [ok |-> FALSE, s |-> <<>>]
    ELSE LET u == Undouble(Tail(s)) IN [ok |-> u.ok, s |-> <<Head(s)>> \o u.s]

\* the values Python takes for false
Falsy(val) ==
    \/ val = BoolValue(FALSE)
    \/ val = IntValue(0)
    \/ val = FloatValue(0)
    \/ val = StrValue(<<>>)
    \/ val = ListValue(0)

\* text is the literal of val under tag t
LiteralOf(t, val, text) ==
    IF t \in {"TEXT", "DATE"} THEN
        /\ Len(text) >= 2
        /\ text[1] = "'"
        /\ text[Len(text)] = "'"
        /\ LET u == Undouble(SubSeq(text, 2, Len(text) - 1))
           IN  u.ok /\ u.s = Str(val)
    ELSE IF t = "BOOLEAN" THEN text = (IF Falsy(val) THEN <<"0">> ELSE <<"1">>)
    ELSE text = Str(val)

\* text is the literals of the cells, in order, separated by ", "
RECURSIVE LiteralsOf(_, _, _)
LiteralsOf(sch, cells, text) ==
    IF cells = <<>> THEN text = <<>>
    ELSE IF Len(cells) = 1
        THEN LiteralOf(Entry(sch, cells[1].k).t, cells[1].v, text)
    ELSE \E p \in 1..(Len(text) - 1) :
            /\ text[p] = ","
            /\ text[p + 1] = " "
            /\ LiteralOf(Entry(sch, cells[1].k).t, cells[1].v, SubSeq(text, 1, p - 1))
            /\ LiteralsOf(sch, Tail(cells), SubSeq(text, p + 2, Len(text)))

\* the text between "VALUES (" and ");" of a statement that lists columns
ValueList(table, columns, stmt) ==
    LET head == InsertText(table, columns, <<>>)
    IN  SubSeq(stmt, Len(head) - 1, Len(stmt) - 2)

\* C3: each non-null value is formatted by the tag of its field in the
\* schema: TEXT and DATE give the value's text between single quotes with
\* every single quote of it doubled, BOOLEAN gives 1 for a truthy value and
\* 0 otherwise, INTEGER and REAL give the value's text as it is.
C3_FormattedBySchemaTag ==
    Returned("generate_insert_statements") =>
        \A i \in 1..Len(call.data) :
            LET listed == NonNull(call.data[i])
            IN  /\ AllInSchema(listed, call.schema)
                /\ LiteralsOf(call.schema, listed,
                              ValueList(call.table_name, KeysOf(listed), ret.value[i]))

\* a string with a single quote in a DATE column
C3_Witness ==
    /\ Returned("generate_insert_statements")
    /\ call.data = <<(<<[k |-> <<"a">>, v |-> StrValue(<<"O", "'", "B">>)]>>)>>
    /\ HasKey(call.schema, <<"a">>)
    /\ Entry(call.schema, <<"a">>).t = "DATE"

\* C4: a batch that only uses fields of the schema gives one statement per
\* record, the i-th being the statement of the i-th record alone; an empty
\* batch gives no statement.
C4_OneStatementPerRecord ==
    (/\ Called("generate_insert_statements")
     /\ \A i \in 1..Len(call.data) : AllInSchema(call.data[i], call.schema))
    => /\ ret.state = "returned"
       /\ Len(ret.value) = Len(call.data)
       /\ \A i \in 1..Len(call.data) :
            <<ret.value[i]>> =
                generate_insert_statements(call.table_name, <<call.data[i]>>,
                                           call.schema).value

\* two records, each listing a column
C4_Witness ==
    /\ Returned("generate_insert_statements")
    /\ Len(call.data) = 2
    /\ \A i \in 1..2 : AllInSchema(call.data[i], call.schema)
    /\ NonNull(call.data[1]) # <<>>
    /\ NonNull(call.data[2]) # <<>>
    /\ call.data[1] # call.data[2]

\* C5: the keys of the inferred schema are the keys of the first record, in
\* its order; the empty batch gives the empty schema.
C5_SchemaKeysOfFirstRecord ==
    Returned("infer_schema") =>
        KeysOf(ret.value) = (IF call.data = <<>> THEN <<>> ELSE KeysOf(call.data[1]))

\* a later record has a field the first lacks, and a field of the first
\* record is null everywhere
C5_Witness ==
    /\ Returned("infer_schema")
    /\ Len(call.data) = 2
    /\ \E j \in 1..Len(call.data[2]) : ~HasKey(call.data[1], call.data[2][j].k)
    /\ \E j \in 1..Len(call.data[1]) :
            /\ call.data[1][j].v.kind = "null"
            /\ DictGet(call.data[2], call.data[1][j].k).kind = "null"

\* C6: a field of the first record gets infer_type of the first value, in
\* batch order, among the records where it is present and not null, and
\* TEXT when there is none.
C6_TypeOfFirstNonNull ==
    Returned("infer_schema") =>
        \A i \in 1..Len(ret.value) :
            LET key == ret.value[i].k
                holders == {r \in 1..Len(call.data) :
                                /\ HasKey(call.data[r], key)
                                /\ Entry(call.data[r], key).v.kind # "null"}
            IN  IF holders = {} THEN ret.value[i].t = "TEXT"
                ELSE LET first == CHOOSE r \in holders : \A q \in holders : r <= q
                     IN  ret.value[i].t = infer_type(Entry(call.data[first], key).v)

\* the first record holds null for a field, the second a value
C6_Witness ==
    /\ Returned("infer_schema")
    /\ Len(call.data) = 2
    /\ \E j \in 1..Len(call.data[1]) :
            /\ call.data[1][j].v.kind = "null"
            /\ DictGet(call.data[2], call.data[1][j].k).kind = "int"
            /\ Entry(ret.value, call.data[1][j].k).t = "INTEGER"

\* C7: infer_type gives one of the five tags: TEXT for null, BOOLEAN for a
\* boolean (never INTEGER), INTEGER for an integer, REAL for a float, DATE
\* for a string that parses as a date, TEXT for another string and for a
\* value of another kind.
C7_InferTypePrecedence ==
    Returned("infer_type") =>
        /\ ret.value \in Tags
        /\ ret.value =
            (CASE call.value.kind = "null" -> "TEXT"
               [] call.value.kind = "bool" -> "BOOLEAN"
               [] call.value.kind = "int" -> "INTEGER"
               [] call.value.kind = "float" -> "REAL"
               [] call.value.kind = "str" ->
                    IF parse_date(call.value.s) THEN "DATE" ELSE "TEXT"
               [] call.value.kind = "list" -> "TEXT")

C7_Witness ==
    /\ Returned("infer_type")
    /\ call.value = BoolValue(TRUE)
    /\ ret.value = "BOOLEAN"

\* the statements a call returned
StatementsReturned ==
    IF Returned("generate_create_table") THEN <<ret.value>>
    ELSE IF Returned("generate_insert_statements") THEN ret.value
    ELSE <<>>

\* C8, as stated: no statement holds a newline and each ends with ';'.
C8_NoNewlineAndSemicolon ==
    \A i \in 1..Len(StatementsReturned) :
        /\ ~HasChar(StatementsReturned[i], "\n")
        /\ EndsWith(StatementsReturned[i], ";")

\* C8, amended: each statement ends with ';'; the CREATE statement is laid
\* out on several lines; the INSERT statement of a record holds a newline
\* only when the table name, a column it lists or the text of a value it
\* lists holds one.
C8_SemicolonAndInsertOnOneLine ==
    /\ \A i \in 1..Len(StatementsReturned) : EndsWith(StatementsReturned[i], ";")
    /\ Returned("generate_create_table") => HasChar(ret.value, "\n")
    /\ Returned("generate_insert_statements") =>
        \A i \in 1..Len(ret.value) :
            HasChar(ret.value[i], "\n") =>
                \/ HasChar(call.table_name, "\n")
                \/ \E j \in 1..Len(call.data[i]) :
                    /\ call.data[i][j].v.kind # "null"
                    /\ \/ HasChar(call.data[i][j].k, "\n")
                       \/ HasChar(Str(call.data[i][j].v), "\n")

\* a statement of two columns, and so of two joins
C8_Witness ==
    /\ Returned("generate_insert_statements")
    /\ \E i \in 1..Len(ret.value) :
        /\ Len(NonNull(call.data[i])) = 2
        /\ ~HasChar(ret.value[i], "\n")
        /\ EndsWith(ret.value[i], ";")

\* the entries of a schema, each "<field> <TYPE>" on its own indented line,
\* a comma after each but the last
RECURSIVE EntryLines(_)
EntryLines(sch) ==
    IF sch = <<>> THEN <<>>
    ELSE sch[1].k \o <<" ">> \o TagChars(sch[1].t)
            \o (IF Len(sch) = 1 THEN <<>>
                ELSE <<",", "\n", " ", " ", " ", " ">> \o EntryLines(Tail(sch)))

\* C10: the CREATE statement is "CREATE TABLE IF NOT EXISTS <table_name> ("
\* followed by one "<field> <TYPE>" entry per schema entry, in the schema's
\* order, followed by ");".
C10_CreateTableText ==
    Returned("generate_create_table") =>
        ret.value =
            <<"C", "R", "E", "A", "T", "E", " ", "T", "A", "B", "L", "E", " ">>
                \o <<"I", "F", " ", "N", "O", "T", " ", "E", "X", "I", "S", "T", "S", " ">>
                \o call.table_name \o <<" ", "(">>
                \o <<"\n", " ", " ", " ", " ">> \o EntryLines(call.schema) \o <<"\n">>
                \o <<")", ";">>

C10_Witness ==
    /\ Returned("generate_create_table")
    /\ Len(call.schema) = 2
    /\ call.schema[1].t # call.schema[2].t

----------------------------------------------------------------------------
(* process_data *)

\* output: None, a file path, a database URL
NoOutput == <<>>
FilePath == <<"o", ".", "s", "q", "l">>
DatabaseUrl == <<"s", "q", "l", "i", "t", "e", ":", "/", "/", "/", "d">>

Outputs == {NoOutput, FilePath, DatabaseUrl}

StartsWith(s, prefix) ==
    Len(s) >= Len(prefix) /\ SubSeq(s, 1, Len(prefix)) = prefix

\* output.startswith(('sqlite:///', 'postgresql://'))
IsDatabaseUrl(out) ==
    \/ StartsWith(out, <<"s", "q", "l", "i", "t", "e", ":", "/", "/", "/">>)
    \/ StartsWith(out, <<"p", "o", "s", "t", "g", "r", "e", "s", "q", "l", ":", "/", "/">>)

\* the input file: missing, not parseable, or holding a batch of records
Sources ==
    {[kind |-> "missing", rows |-> <<>>], [kind |-> "invalid", rows |-> <<>>]}
    \cup {[kind |-> "records", rows |-> b] : b \in NarrowBatches}

load_data(src) ==
    IF src.kind = "missing" THEN Raises("FileNotFoundError")
    ELSE IF src.kind = "invalid" THEN Raises("JSONDecodeError")
    ELSE Returns(src.rows)

NoFile == [opened |-> FALSE, text |-> <<>>]
NoDatabase == [connected |-> FALSE, executed |-> <<>>, committed |-> <<>>, next |-> 0]

InitProcess ==
    /\ call = NoCall
    /\ ret = Pending
    /\ cli = NoCli
    /\ pc = "load"
    /\ output \in Outputs
    /\ source \in Sources
    /\ table_name \in TableNames
    /\ data = <<>>
    /\ schema = <<>>
    /\ create_stmt = <<>>
    /\ insert_stmts = <<>>
    /\ raised = ""
    /\ file = NoFile
    /\ db = NoDatabase

\* an exception leaves process_data
Fail(e) ==
    /\ pc' = "failed"
    /\ raised' = e

\* data = load_data(file_path, format)
LoadData ==
    /\ pc = "load"
    /\ LET r == load_data(source) IN
        IF r.raised # ""
        THEN Fail(r.raised) /\ UNCHANGED data
        ELSE data' = r.value /\ pc' = "infer" /\ UNCHANGED raised
    /\ UNCHANGED <<callVars, cli, output, source, table_name, schema, create_stmt,
                   insert_stmts, file, db>>

\* schema = infer_schema(data)
ProcessInferSchema ==
    /\ pc = "infer"
    /\ schema' = infer_schema(data)
    /\ pc' = "create"
    /\ UNCHANGED <<callVars, cli, output, source, table_name, data, create_stmt,
                   insert_stmts, raised, file, db>>

\* create_stmt = generate_create_table(table_name, schema)
ProcessCreateTable ==
    /\ pc = "create"
    /\ create_stmt' = generate_create_table(table_name, schema)
    /\ pc' = "insert"
    /\ UNCHANGED <<callVars, cli, output, source, table_name, data, schema,
                   insert_stmts, raised, file, db>>

\* insert_stmts = generate_insert_statements(table_name, data, schema)
ProcessInsertStatements ==
    /\ pc = "insert"
    /\ LET r == generate_insert_statements(table_name, data, schema) IN
        IF r.raised # ""
        THEN Fail(r.raised) /\ UNCHANGED insert_stmts
        ELSE insert_stmts' = r.value /\ pc' = "output" /\ UNCHANGED raised
    /\ UNCHANGED <<callVars, cli, output, source, table_name, data, schema,
                   create_stmt, file, db>>

\* if output: is false
ReturnWithoutOutput ==
    /\ pc = "output"
    /\ output = NoOutput
    /\ pc' = "done"
    /\ UNCHANGED <<callVars, cli, output, source, table_name, data, schema,
                   create_stmt, insert_stmts, raised, file, db>>

\* engine = create_engine(output_url); with engine.connect() as conn:
DbConnect ==
    /\ pc = "output"
    /\ output # NoOutput
    /\ IsDatabaseUrl(output)
    /\ db' = [db EXCEPT !.connected = TRUE]
    /\ pc' = "db_create"
    /\ UNCHANGED <<callVars, cli, output, source, table_name, data, schema,
                   create_stmt, insert_stmts, raised, file>>

\* the database cannot be reached
DbConnectFails ==
    /\ pc = "output"
    /\ output # NoOutput
    /\ IsDatabaseUrl(output)
    /\ Fail("OperationalError")
    /\ UNCHANGED <<callVars, cli, output, source, table_name, data, schema,
                   create_stmt, insert_stmts, file, db>>

\* conn.execute(text(create_stmt))
DbExecuteCreate ==
    /\ pc = "db_create"
    /\ db' = [db EXCEPT !.executed = Append(@, create_stmt), !.next = 1]
    /\ pc' = "db_insert"
    /\ UNCHANGED <<callVars, cli, output, source, table_name, data, schema,
                   create_stmt, insert_stmts, raised, file>>

\* each INSERT committed as it is executed
DbExecuteInsertAutocommit ==
    /\ pc = "db_insert"
    /\ db.next <= Len(insert_stmts)
    /\ db' = [db EXCEPT !.committed = @ \o db.executed \o <<insert_stmts[db.next]>>,
                        !.executed = <<>>,
                        !.next = @ + 1]
    /\ UNCHANGED <<callVars, cli, pc, output, source, table_name, data, schema,
                   create_stmt, insert_stmts, raised, file>>

\* for stmt in insert_stmts: conn.execute(text(stmt))
DbExecuteInsert ==
    /\ pc = "db_insert"
    /\ db.next <= Len(insert_stmts)
    /\ db' = [db EXCEPT !.executed = Append(@, insert_stmts[db.next]), !.next = @ + 1]
    /\ UNCHANGED <<callVars, cli, pc, output, source, table_name, data, schema,
                   create_stmt, insert_stmts, raised, file>>

\* the database rejects the statement conn.execute is given: the exception
\* leaves the with block, which closes the connection, and what was
\* executed and not committed is rolled back
DbExecuteFails ==
    /\ \/ pc = "db_create"
       \/ pc = "db_insert" /\ db.next <= Len(insert_stmts)
    /\ db' = [db EXCEPT !.executed = <<>>, !.connected = FALSE]
    /\ Fail("SQLAlchemyError")
    /\ UNCHANGED <<callVars, cli, output, source, table_name, data, schema,
                   create_stmt, insert_stmts, file>>

\* conn.commit(), and the with block closes the connection
DbCommit ==
    /\ pc = "db_insert"
    /\ db.next > Len(insert_stmts)
    /\ db' = [db EXCEPT !.committed = @ \o db.executed, !.executed = <<>>,
                        !.connected = FALSE]
    /\ pc' = "done"
    /\ UNCHANGED <<callVars, cli, output, source, table_name, data, schema,
                   create_stmt, insert_stmts, raised, file>>

\* with open(output, 'w') as f:
FileOpen ==
    /\ pc = "output"
    /\ output # NoOutput
    /\ ~IsDatabaseUrl(output)
    /\ file' = [opened |-> TRUE, text |-> <<>>]
    /\ pc' = "file_create"
    /\ UNCHANGED <<callVars, cli, output, source, table_name, data, schema,
                   create_stmt, insert_stmts, raised, db>>

\* the file cannot be opened for writing
FileOpenFails ==
    /\ pc = "output"
    /\ output # NoOutput
    /\ ~IsDatabaseUrl(output)
    /\ Fail("OSError")
    /\ UNCHANGED <<callVars, cli, output, source, table_name, data, schema,
                   create_stmt, insert_stmts, file, db>>

\* f.write(create_stmt + '\n\n')
FileWriteCreate ==
    /\ pc = "file_create"
    /\ file' = [file EXCEPT !.text = @ \o create_stmt \o <<"\n", "\n">>]
    /\ pc' = "file_inserts"
    /\ UNCHANGED <<callVars, cli, output, source, table_name, data, schema,
                   create_stmt, insert_stmts, raised, db>>

\* f.write('\n'.join(insert_stmts)), and process_data returns
FileWriteInserts ==
    /\ pc = "file_inserts"
    /\ file' = [file EXCEPT !.text = @ \o Join(insert_stmts, <<"\n">>)]
    /\ pc' = "done"
    /\ UNCHANGED <<callVars, cli, output, source, table_name, data, schema,
                   create_stmt, insert_stmts, raised, db>>

NextProcess ==
    \/ LoadData
    \/ ProcessInferSchema
    \/ ProcessCreateTable
    \/ ProcessInsertStatements
    \/ ReturnWithoutOutput
    \/ DbConnect
    \/ DbConnectFails
    \/ DbExecuteCreate
    \/ DbExecuteInsert
    \/ DbExecuteFails
    \/ DbCommit
    \/ FileOpen
    \/ FileOpenFails
    \/ FileWriteCreate
    \/ FileWriteInserts

SpecProcess == InitProcess /\ [][NextProcess]_vars

----------------------------------------------------------------------------
(* Properties of process_data *)

IsPrefix(s, t) == Len(s) <= Len(t) /\ SubSeq(t, 1, Len(s)) = s

\* the statements of the batch in the input file
SourceSchema == infer_schema(source.rows)
SourceCreate == generate_create_table(table_name, SourceSchema)
SourceInserts == generate_insert_statements(table_name, source.rows, SourceSchema)
SourceStatements == <<SourceCreate>> \o SourceInserts.value
SourceText == SourceCreate \o <<"\n", "\n">> \o Join(SourceInserts.value, <<"\n">>)

SinkUntouched == file = NoFile /\ db = NoDatabase

----------------------------------------------------------------------------
(* convert (src/data2sql/cli.py) and its validators (src/data2sql/utils.py) *)

Letters ==
    {"a", "b", "c", "d", "e", "f", "g", "h", "i", "j", "k", "l", "m",
     "n", "o", "p", "q", "r", "s", "t", "u", "v", "w", "x", "y", "z",
     "A", "B", "C", "D", "E", "F", "G", "H", "I", "J", "K", "L", "M",
     "N", "O", "P", "Q", "R", "S", "T", "U", "V", "W", "X", "Y", "Z"}

IsSpace(c) == c \in {" ", "\t", "\n", "\r"}

\* str.strip()
RECURSIVE Strip(_)
Strip(s) ==
    IF s = <<>> THEN <<>>
    ELSE IF IsSpace(Head(s)) THEN Strip(Tail(s))
    ELSE IF IsSpace(s[Len(s)]) THEN Strip(SubSeq(s, 1, Len(s) - 1))
    ELSE s

\* str.isalnum()
IsAlnum(s) == s # <<>> /\ \A i \in 1..Len(s) : s[i] \in Letters \/ IsDigit(s[i])

\* os.path.isfile(file_path)
validate_file_exists(src) == src.kind # "missing"

validate_table_name(name) ==
    /\ name # <<>>
    /\ Strip(name) # <<>>
    /\ IsAlnum(Replace(name, "_", <<>>))
    /\ ~IsDigit(name[1])

\* --table
CliTableNames == {<<"t">>, <<>>, <<"1", "t">>, <<"t", " ">>, <<"_">>}

\* the values of the files convert is given
CliValues == {NoneValue, StrValue(<<"O", "'", "B">>)}

\* field names that are no identifiers
InvalidFieldNames == {<<"1", "x">>, <<"a", " ", "b">>}

\* the files convert is given: missing, not parseable, a batch over
\* FieldNames, or one record with a field name that is no identifier
CliSources ==
    {[kind |-> "missing", rows |-> <<>>], [kind |-> "invalid", rows |-> <<>>]}
    \cup {[kind |-> "records", rows |-> b] :
            b \in {x \in NarrowBatches :
                    \A i \in 1..Len(x) : \A j \in 1..Len(x[i]) : x[i][j].v \in CliValues}}
    \cup {[kind |-> "records", rows |-> <<(<<[k |-> n, v |-> StrValue(<<"O", "'", "B">>)]>>)>>] :
            n \in InvalidFieldNames}

\* what the user answers a prompt with: a choice of click.Choice
PromptAnswers == Tags

InitConvert ==
    /\ call = NoCall
    /\ ret = Pending
    /\ pc = "idle"
    /\ output = NoOutput
    /\ source \in CliSources
    /\ table_name = <<>>
    /\ data = <<>>
    /\ schema = <<>>
    /\ create_stmt = <<>>
    /\ insert_stmts = <<>>
    /\ raised = ""
    /\ file = NoFile
    /\ db = NoDatabase
    /\ \E t \in CliTableNames, o \in Outputs, i \in BOOLEAN, p \in BOOLEAN :
        cli = [stage |-> "validate", table |-> t, output |-> o, interactive |-> i,
               preview |-> p, data |-> <<>>, new_schema |-> <<>>]

\* except Exception as e: click.echo(...); sys.exit(1)
Exit1(e) ==
    /\ cli' = [cli EXCEPT !.stage = "exit1"]
    /\ raised' = e

\* if not validate_file_exists(file): raise; if not validate_table_name(table): raise
ValidateInputs ==
    /\ cli.stage = "validate"
    /\ IF ~validate_file_exists(source) \/ ~validate_table_name(cli.table)
       THEN Exit1("ClickException")
       ELSE cli' = [cli EXCEPT !.stage = "load"] /\ UNCHANGED raised
    /\ UNCHANGED <<callVars, pc, output, source, table_name, data, schema,
                   create_stmt, insert_stmts, file, db>>

\* data = load_data(file, format)
CliLoadData ==
    /\ cli.stage = "load"
    /\ LET r == load_data(source) IN
        IF r.raised # "" THEN Exit1(r.raised)
        ELSE cli' = [cli EXCEPT !.stage = "call", !.data = r.value] /\ UNCHANGED raised
    /\ UNCHANGED <<callVars, pc, output, source, table_name, data, schema,
                   create_stmt, insert_stmts, file, db>>

\* process_data called with output=output, interactive or not
CallProcessDataWithOutput ==
    /\ cli.stage = "call"
    /\ cli' = [cli EXCEPT !.stage = "process"]
    /\ pc' = "load"
    /\ table_name' = cli.table
    /\ output' = cli.output
    /\ UNCHANGED <<callVars, source, data, schema, create_stmt, insert_stmts,
                   raised, file, db>>

\* process_data(file_path=file, table_name=table, format=format,
\*              output=None if interactive else output, preview=preview)
CallProcessData ==
    /\ cli.stage = "call"
    /\ cli' = [cli EXCEPT !.stage = "process"]
    /\ pc' = "load"
    /\ table_name' = cli.table
    /\ output' = IF cli.interactive THEN NoOutput ELSE cli.output
    /\ UNCHANGED <<callVars, source, data, schema, create_stmt, insert_stmts,
                   raised, file, db>>

\* process_data raised
ProcessDataRaised ==
    /\ cli.stage = "process"
    /\ pc = "failed"
    /\ cli' = [cli EXCEPT !.stage = "exit1"]
    /\ UNCHANGED <<callVars, processVars>>

\* schema, create_stmt, insert_stmts = process_data(...); the preview is
\* echoed, and without --interactive convert ends: after the preview, or
\* after the results are echoed
ProcessDataReturned ==
    /\ cli.stage = "process"
    /\ pc = "done"
    /\ cli' = [cli EXCEPT !.stage = IF cli.interactive THEN "prompt" ELSE "exit0",
                          !.new_schema = <<>>]
    /\ UNCHANGED <<callVars, processVars>>

\* new_schema[field] = click.prompt(..., type=click.Choice([...]), default=type_)
Prompt ==
    /\ cli.stage = "prompt"
    /\ Len(cli.new_schema) < Len(schema)
    /\ \E new_type \in PromptAnswers :
        cli' = [cli EXCEPT !.new_schema =
                    Append(@, [k |-> schema[Len(@) + 1].k, t |-> new_type])]
    /\ UNCHANGED <<callVars, processVars>>

\* the prompt is aborted (end of input, Ctrl-C): click.Abort
PromptAborted ==
    /\ cli.stage = "prompt"
    /\ Len(cli.new_schema) < Len(schema)
    /\ Exit1("Abort")
    /\ UNCHANGED <<callVars, pc, output, source, table_name, data, schema,
                   create_stmt, insert_stmts, file, db>>

\* schema = new_schema; create_stmt = generate_create_table(table, schema);
\* insert_stmts = generate_insert_statements(table, data, schema)
Regenerate ==
    /\ cli.stage = "prompt"
    /\ Len(cli.new_schema) = Len(schema)
    /\ schema' = cli.new_schema
    /\ create_stmt' = generate_create_table(cli.table, schema')
    /\ LET r == generate_insert_statements(cli.table, cli.data, schema') IN
        IF r.raised # "" THEN Exit1(r.raised) /\ UNCHANGED insert_stmts
        ELSE /\ insert_stmts' = r.value
             /\ cli' = [cli EXCEPT !.stage = "write"]
             /\ UNCHANGED raised
    /\ UNCHANGED <<callVars, pc, output, source, table_name, data, file, db>>

\* if output: is false, and the results are echoed
CliNoOutput ==
    /\ cli.stage = "write"
    /\ cli.output = NoOutput
    /\ cli' = [cli EXCEPT !.stage = "exit0"]
    /\ UNCHANGED <<callVars, processVars>>

\* write_to_database(create_stmt, insert_stmts, output): connect
CliDbConnect ==
    /\ cli.stage = "write"
    /\ cli.output # NoOutput
    /\ IsDatabaseUrl(cli.output)
    /\ db' = [db EXCEPT !.connected = TRUE]
    /\ pc' = "db_create"
    /\ cli' = [cli EXCEPT !.stage = "db_write"]
    /\ UNCHANGED <<callVars, output, source, table_name, data, schema,
                   create_stmt, insert_stmts, raised, file>>

\* the database cannot be reached
CliDbConnectFails ==
    /\ cli.stage = "write"
    /\ cli.output # NoOutput
    /\ IsDatabaseUrl(cli.output)
    /\ Exit1("OperationalError")
    /\ UNCHANGED <<callVars, pc, output, source, table_name, data, schema,
                   create_stmt, insert_stmts, file, db>>

\* write_to_database returned, and convert ends
CliDbReturned ==
    /\ cli.stage = "db_write"
    /\ pc = "done"
    /\ cli' = [cli EXCEPT !.stage = "exit0"]
    /\ UNCHANGED <<callVars, processVars>>

\* write_to_database raised
CliDbRaised ==
    /\ cli.stage = "db_write"
    /\ pc = "failed"
    /\ cli' = [cli EXCEPT !.stage = "exit1"]
    /\ UNCHANGED <<callVars, processVars>>

\* with open(output, 'w') as f:
CliFileOpen ==
    /\ cli.stage = "write"
    /\ cli.output # NoOutput
    /\ ~IsDatabaseUrl(cli.output)
    /\ file' = [opened |-> TRUE, text |-> <<>>]
    /\ cli' = [cli EXCEPT !.stage = "file_create"]
    /\ UNCHANGED <<callVars, pc, output, source, table_name, data, schema,
                   create_stmt, insert_stmts, raised, db>>

\* the file cannot be opened for writing
CliFileOpenFails ==
    /\ cli.stage = "write"
    /\ cli.output # NoOutput
    /\ ~IsDatabaseUrl(cli.output)
    /\ Exit1("OSError")
    /\ UNCHANGED <<callVars, pc, output, source, table_name, data, schema,
                   create_stmt, insert_stmts, file, db>>

\* f.write(create_stmt + '\n\n')
CliFileWriteCreate ==
    /\ cli.stage = "file_create"
    /\ file' = [file EXCEPT !.text = @ \o create_stmt \o <<"\n", "\n">>]
    /\ cli' = [cli EXCEPT !.stage = "file_inserts"]
    /\ UNCHANGED <<callVars, pc, output, source, table_name, data, schema,
                   create_stmt, insert_stmts, raised, db>>

\* f.write('\n'.join(insert_stmts)), and convert ends
CliFileWriteInserts ==
    /\ cli.stage = "file_inserts"
    /\ file' = [file EXCEPT !.text = @ \o Join(insert_stmts, <<"\n">>)]
    /\ cli' = [cli EXCEPT !.stage = "exit0"]
    /\ UNCHANGED <<callVars, pc, output, source, table_name, data, schema,
                   create_stmt, insert_stmts, raised, db>>

NextConvert ==
    \/ ValidateInputs
    \/ CliLoadData
    \/ CallProcessData
    \/ ProcessDataRaised
    \/ ProcessDataReturned
    \/ Prompt
    \/ PromptAborted
    \/ Regenerate
    \/ CliNoOutput
    \/ CliDbConnect
    \/ CliDbConnectFails
    \/ CliDbReturned
    \/ CliDbRaised
    \/ CliFileOpen
    \/ CliFileOpenFails
    \/ CliFileWriteCreate
    \/ CliFileWriteInserts
    \/ NextProcess

SpecConvert == InitConvert /\ [][NextConvert]_vars

----------------------------------------------------------------------------
(* convert: what reaches the sink *)

\* the statements of the batch under the schema the prompts confirmed
ConfirmedCreate == generate_create_table(cli.table, cli.new_schema)
ConfirmedInserts == generate_insert_statements(cli.table, source.rows, cli.new_schema)
ConfirmedStatements == <<ConfirmedCreate>> \o ConfirmedInserts.value
ConfirmedText == ConfirmedCreate \o <<"\n", "\n">> \o Join(ConfirmedInserts.value, <<"\n">>)

\* every field of the inferred schema has its answer, in the schema's order
PromptsAnswered ==
    /\ KeysOf(cli.new_schema) = KeysOf(SourceSchema)
    /\ \A i \in 1..Len(cli.new_schema) : cli.new_schema[i].t \in Tags

\* the steps that open the sink: in process_data or in convert itself
OpensSink == FileOpen \/ DbConnect \/ CliFileOpen \/ CliDbConnect

C11_SinkState ==
    /\ cli.output = NoOutput => SinkUntouched
    /\ (~cli.interactive /\ ~SinkUntouched) =>
            /\ IsPrefix(file.text, SourceText)
            /\ IsPrefix(db.executed, SourceStatements)
            /\ db.committed \in {<<>>, SourceStatements}
    /\ (cli.interactive /\ cli.stage \in {"validate", "load", "call", "process", "prompt", "write"})
            => SinkUntouched
    /\ (cli.interactive /\ cli.stage \in {"write", "db_write", "file_create", "file_inserts", "exit0"}) =>
            /\ PromptsAnswered
            /\ schema = cli.new_schema
            /\ create_stmt = ConfirmedCreate
            /\ insert_stmts = ConfirmedInserts.value
    /\ (cli.interactive /\ ~SinkUntouched) =>
            /\ PromptsAnswered
            /\ ConfirmedInserts.raised = ""
            /\ IsPrefix(file.text, ConfirmedText)
            /\ IsPrefix(db.executed, ConfirmedStatements)
            /\ db.committed \in {<<>>, ConfirmedStatements}
    /\ (cli.interactive /\ cli.stage = "exit0" /\ cli.output # NoOutput) =>
            IF IsDatabaseUrl(cli.output)
            THEN db.committed = ConfirmedStatements /\ file = NoFile
            ELSE file.text = ConfirmedText /\ db = NoDatabase

\* C11: in every run of convert the sink is opened at most once, by a step
\* that finds it untouched, and only when an output is given; with
\* --interactive nothing reaches the sink before every prompt is answered, the
\* confirmed schema has the fields of the inferred schema in its order with
\* every tag one of TEXT, INTEGER, REAL, DATE, BOOLEAN, and the sink receives
\* the statements regenerated from the confirmed schema over the same batch.
C11_WrittenOnceFromConfirmedSchema ==
    /\ []C11_SinkState
    /\ [][OpensSink => SinkUntouched]_vars

\* an interactive run that retyped a field and wrote the file to the end:
\* the text is not the one of the inferred schema
C11_Witness ==
    /\ cli.interactive
    /\ cli.stage = "exit0"
    /\ cli.output # NoOutput
    /\ ~IsDatabaseUrl(cli.output)
    /\ cli.new_schema # SourceSchema
    /\ file.text = ConfirmedText
    /\ file.text # SourceText
    /\ Len(source.rows) = 2

----------------------------------------------------------------------------
(* convert: identifier validation *)

\* a non-empty string of alphanumerics and underscores that does not start
\* with a digit
IsIdentifier(name) ==
    /\ name # <<>>
    /\ \A i \in 1..Len(name) : name[i] \in Letters \/ IsDigit(name[i]) \/ name[i] = "_"
    /\ ~IsDigit(name[1])

\* the input file is missing, or the table name or a field name of the
\* batch in it is no identifier
InvalidInput ==
    \/ ~validate_file_exists(source)
    \/ ~IsIdentifier(cli.table)
    \/ \E i \in 1..Len(source.rows) : \E j \in 1..Len(source.rows[i]) :
            ~IsIdentifier(source.rows[i][j].k)

\* C12: when the input file does not exist, or the table name or any field
\* name of the batch is not an identifier, convert never calls process_data,
\* generates no CREATE or INSERT statement, writes nothing to the sink and
\* does not end successfully.
C12_InvalidInputRejected ==
    InvalidInput =>
        /\ pc = "idle"
        /\ create_stmt = <<>>
        /\ insert_stmts = <<>>
        /\ SinkUntouched
        /\ cli.stage # "exit0"

====
